---- MODULE Spec2Model ----
(***************************************************************************)
(* Project membership, role checks and project-database registration of    *)
(* the multi-project REST backend.                                         *)
(*                                                                         *)
(* The project_members table is a set of rows.  Three pieces of code       *)
(* mutate it: the static methods of ProjectMember, the instance methods of *)
(* Project, and the handlers of the /projects/:id/members routes.  Each    *)
(* ORM call (first, insert, patch, delete) is one database statement.      *)
(***************************************************************************)
EXTENDS Integers, FiniteSets, Sequences, TLC

(***************************************************************************)
(* Bounds of the model.                                                    *)
(***************************************************************************)
\* rows ever inserted for one (project, user) pair
MaxRowsPerPair == 2
\* project_databases rows ever inserted
MaxDatabases == 3

\* connection handles ever opened
MaxHandles == 3
\* execute requests ever made
MaxExecutes == 1

\* projects ever created
MaxProjects == 3

\* destroy() calls that fail in one cleanupDbConnections call
MaxCloseFailures == 1

\* requests that can be in flight at the same time
Slots == {1, 2}

Projects == {"P1"}
Users == {"A", "B"}

\* ProjectMember.ROLES keys plus the 'user' role of Project.addMember
Roles == {"viewer", "user", "editor", "admin", "custom"}

\* projection of the ROLES permission lists onto three permissions
Permissions == {"project:read", "query:create", "member:add"}
AdminPermissions == {"project:read", "query:create", "member:add"}
EditorPermissions == {"project:read", "query:create"}
ViewerPermissions == {"project:read"}

\* customPermissions arguments; {} is the default []
CustomLists == {{}, {"member:add"}}

Null == [id |-> <<"none", 0>>]

VARIABLES
  members,     \* rows of project_members
  inserted,    \* inserted[p][u]: rows ever inserted for (p, u); gives fresh ids
  hadAdmin,    \* projects that have had an active admin
  last,        \* the last membership call that returned: operation, arguments, outcome
  calls,       \* calls[s]: a ProjectMember call suspended at one of its awaits
  databases,   \* committed rows of project_databases
  dbMade,      \* project_databases rows ever inserted; gives fresh ids
  reqs,        \* reqs[s]: a POST /:id/databases request and its open transaction
  dbLast,      \* the last database operation that returned
  dbConnections, \* the handle cache: dbConnections[key] is a handle id, 0 when absent
  destroyed,   \* handles on which destroy() was called
  opened,      \* handles ever built by knex(); gives fresh handle ids
  conns,       \* conns[s]: a getDbConnection or POST /execute call at one of its awaits
  connLast,    \* the last getDbConnection / cleanupDbConnections call that returned
  history,     \* rows of query_history
  execMade,    \* POST /execute requests ever started; numbers the requests
  execLast,    \* the last POST /execute response
  cfgLast,     \* the last connection configuration that was built
  projects,    \* rows of projects made by the creation paths
  createLast   \* the last project creation that returned

memberVars == <<members, inserted, hadAdmin, last>>
dbVars == <<databases, dbMade, reqs, dbLast>>
brokerVars == <<dbConnections, destroyed, opened, conns, connLast, history, execMade, execLast>>
extraVars == <<cfgLast, projects, createLast>>
vars == <<members, inserted, hadAdmin, last, calls, databases, dbMade, reqs, dbLast,
          dbConnections, destroyed, opened, conns, connLast, history, execMade, execLast,
          cfgLast, projects, createLast>>

(***************************************************************************)
(* ProjectMember: role table and queries.                                  *)
(***************************************************************************)
getRolePermissions(role) ==
  CASE role = "admin"  -> AdminPermissions
    [] role = "editor" -> EditorPermissions
    [] role = "viewer" -> ViewerPermissions
    [] OTHER           -> {}

\* rows of (projectId, userId), active or not
RowsOf(tbl, projectId, userId) ==
  {r \in tbl : r.project_id = projectId /\ r.user_id = userId}

\* .first(): one of the matching rows, or null when there is none
First(rows) == IF rows = {} THEN {Null} ELSE rows

\* variant: the lookup skips rows that are not active
getByProjectAndUser_activeOnly(tbl, projectId, userId) ==
  First({r \in RowsOf(tbl, projectId, userId) : r.is_active})

getByProjectAndUser(tbl, projectId, userId) == First(RowsOf(tbl, projectId, userId))

\* where project_id, role = admin, is_active = true
ActiveAdmins(tbl, projectId) ==
  {r \in tbl : r.project_id = projectId /\ r.role = "admin" /\ r.is_active}

\* $relatedQuery('members').where('role', 'admin'): is_active is not filtered
AdminRows(tbl, projectId) ==
  {r \in tbl : r.project_id = projectId /\ r.role = "admin"}

\* the row a ProjectMember insert stores: $beforeInsert fills empty
\* permissions from the role table, is_active defaults to true
NewRow(projectId, userId, role, permissions) ==
  [id          |-> <<userId, inserted[projectId][userId] + 1>>,
   project_id  |-> projectId,
   user_id     |-> userId,
   role        |-> role,
   permissions |-> IF permissions = {} THEN getRolePermissions(role) ELSE permissions,
   is_active   |-> TRUE]

CanInsert(projectId, userId) == inserted[projectId][userId] < MaxRowsPerPair

Patch(tbl, rows, f(_)) == (tbl \ rows) \cup {f(r) : r \in rows}

Returned(op, projectId, userId, out) ==
  last' = [op |-> op, project |-> projectId, user |-> userId, out |-> out]

Track(projectId) ==
  hadAdmin' = hadAdmin \cup {p \in Projects : ActiveAdmins(members', p) # {}}

NoInsert == UNCHANGED inserted
DidInsert(projectId, userId) ==
  inserted' = [inserted EXCEPT ![projectId][userId] = @ + 1]

(***************************************************************************)
(* ProjectMember.addMember                                                 *)
(***************************************************************************)
Reactivated(r, role, customPermissions) ==
  [r EXCEPT !.role = role,
            !.is_active = TRUE,
            !.permissions = IF role = "custom" THEN customPermissions ELSE @]

ProjectMember_addMember(projectId, userId, role, customPermissions) ==
  \E existingMember \in getByProjectAndUser(members, projectId, userId) :
    IF existingMember # Null
    THEN IF existingMember.is_active
         THEN /\ UNCHANGED <<members, inserted>>
              /\ Returned("ProjectMember.addMember", projectId, userId, "AlreadyMember")
         ELSE /\ members' = Patch(members, {existingMember},
                                  LAMBDA r : Reactivated(r, role, customPermissions))
              /\ NoInsert
              /\ Returned("ProjectMember.addMember", projectId, userId, "reactivated")
    ELSE /\ CanInsert(projectId, userId)
         /\ members' = members \cup
              {NewRow(projectId, userId, role,
                      IF role = "custom" THEN customPermissions ELSE {})}
         /\ DidInsert(projectId, userId)
         /\ Returned("ProjectMember.addMember", projectId, userId, "inserted")

(***************************************************************************)
(* ProjectMember.removeMember                                              *)
(***************************************************************************)
Deactivated(r) == [r EXCEPT !.is_active = FALSE]

\* variant: the comparison is admins.length < 1
LastAdminGuard_offByOne(member, admins) ==
  member # Null /\ member.role = "admin" /\ Cardinality(admins) < 1

LastAdminGuard(member, admins) ==
  member # Null /\ member.role = "admin" /\ Cardinality(admins) <= 1

\* variant: the patch runs before the last-admin check
ProjectMember_removeMember_writeFirst(projectId, userId) ==
  LET admins == ActiveAdmins(members, projectId) IN
  \E member \in getByProjectAndUser(members, projectId, userId) :
    /\ members' = Patch(members, RowsOf(members, projectId, userId),
                        LAMBDA r : Deactivated(r))
    /\ NoInsert
    /\ Returned("ProjectMember.removeMember", projectId, userId,
                IF LastAdminGuard(member, admins) THEN "LastAdminViolation" ELSE "ok")

ProjectMember_removeMember(projectId, userId) ==
  LET admins == ActiveAdmins(members, projectId) IN
  \E member \in getByProjectAndUser(members, projectId, userId) :
    IF LastAdminGuard(member, admins)
    THEN /\ UNCHANGED <<members, inserted>>
         /\ Returned("ProjectMember.removeMember", projectId, userId, "LastAdminViolation")
    ELSE /\ members' = Patch(members, RowsOf(members, projectId, userId),
                             LAMBDA r : Deactivated(r))
         /\ NoInsert
         /\ Returned("ProjectMember.removeMember", projectId, userId, "ok")

(***************************************************************************)
(* ProjectMember.updateMember                                              *)
(***************************************************************************)
Updated(r, role, customPermissions) ==
  [r EXCEPT !.role = role,
            !.permissions = IF role = "custom" THEN customPermissions ELSE @]

ProjectMember_updateMember(projectId, userId, role, customPermissions) ==
  LET admins == ActiveAdmins(members, projectId) IN
  \E member \in getByProjectAndUser(members, projectId, userId) :
    IF role # "admin" /\ LastAdminGuard(member, admins)
    THEN /\ UNCHANGED <<members, inserted>>
         /\ Returned("ProjectMember.updateMember", projectId, userId, "LastAdminViolation")
    ELSE /\ members' = Patch(members, RowsOf(members, projectId, userId),
                             LAMBDA r : Updated(r, role, customPermissions))
         /\ NoInsert
         /\ Returned("ProjectMember.updateMember", projectId, userId, "ok")

(***************************************************************************)
(* Project.addMember / Project.removeMember (instance methods)             *)
(***************************************************************************)
validRoles == {"user", "editor", "admin"}

Project_addMember(projectId, userId, role) ==
  IF role \notin validRoles
  THEN /\ UNCHANGED <<members, inserted>>
       /\ Returned("Project.addMember", projectId, userId, "InvalidRole")
  ELSE \E existingMember \in getByProjectAndUser(members, projectId, userId) :
         IF existingMember # Null
         THEN /\ members' = Patch(members, RowsOf(members, projectId, userId),
                                  LAMBDA r : [r EXCEPT !.role = role])
              /\ NoInsert
              /\ Returned("Project.addMember", projectId, userId, "updated")
         ELSE /\ CanInsert(projectId, userId)
              /\ members' = members \cup {NewRow(projectId, userId, role, {})}
              /\ DidInsert(projectId, userId)
              /\ Returned("Project.addMember", projectId, userId, "inserted")

Project_removeMember(projectId, userId) ==
  LET adminCount == Cardinality(AdminRows(members, projectId)) IN
  \E userRole \in getByProjectAndUser(members, projectId, userId) :
    IF adminCount <= 1 /\ userRole # Null /\ userRole.role = "admin"
    THEN /\ UNCHANGED <<members, inserted>>
         /\ Returned("Project.removeMember", projectId, userId, "LastAdminViolation")
    ELSE /\ members' = members \ RowsOf(members, projectId, userId)
         /\ NoInsert
         /\ Returned("Project.removeMember", projectId, userId, "ok")

(***************************************************************************)
(* POST /:id/members and DELETE /:id/members/:userId handlers              *)
(***************************************************************************)
Route_addMember(projectId, user_id, role) ==
  IF role \notin validRoles
  THEN /\ UNCHANGED <<members, inserted>>
       /\ Returned("POST members", projectId, user_id, "ValidationError")
  ELSE \E existingMember \in getByProjectAndUser(members, projectId, user_id) :
         IF existingMember # Null
         THEN /\ UNCHANGED <<members, inserted>>
              /\ Returned("POST members", projectId, user_id, "AlreadyMember")
         ELSE /\ CanInsert(projectId, user_id)
              /\ members' = members \cup {NewRow(projectId, user_id, role, {})}
              /\ DidInsert(projectId, user_id)
              /\ Returned("POST members", projectId, user_id, "inserted")

Route_removeMember(projectId, userId, actor) ==
  LET admins == AdminRows(members, projectId)
      deleted == RowsOf(members, projectId, userId)
  IN
  IF userId = actor
  THEN /\ UNCHANGED <<members, inserted>>
       /\ Returned("DELETE member", projectId, userId, "Self")
  ELSE \E admins0 \in First(admins) :
         IF Cardinality(admins) <= 1 /\ admins0 # Null /\ admins0.user_id = userId
         THEN /\ UNCHANGED <<members, inserted>>
              /\ Returned("DELETE member", projectId, userId, "LastAdminViolation")
         ELSE /\ members' = members \ deleted
              /\ NoInsert
              /\ Returned("DELETE member", projectId, userId,
                          IF deleted = {} THEN "MemberNotFound" ELSE "ok")


(***************************************************************************)
(* ProjectMember.removeMember / updateMember as concurrent requests: each  *)
(* await is a point where another request can run.                         *)
(*   readAdmins : const admins = await this.query()...                     *)
(*   readMember : const member = await this.getByProjectAndUser(...)       *)
(*                followed by the last-admin check                         *)
(*   write      : the patch statement                                      *)
(***************************************************************************)
\* roles of the members the concurrent requests act on, and the roles a
\* concurrent updateMember downgrades to
ConcRoles == {"admin", "editor"}
DowngradeRoles == {"editor"}

IdleCall == [pc |-> "idle"]

Busy(s) == calls[s] # IdleCall

callStart(s, op, projectId, userId, role) ==
  /\ calls[s] = IdleCall
  /\ \A t \in Slots : t < s => Busy(t)
  /\ calls' = [calls EXCEPT ![s] =
       [pc      |-> IF op = "ProjectMember.updateMember" /\ role = "admin"
                    THEN "write" ELSE "readAdmins",
        op      |-> op,
        project |-> projectId,
        user    |-> userId,
        role    |-> role,
        admins  |-> 0]]
  /\ UNCHANGED <<memberVars, dbVars, brokerVars, extraVars>>

callReadAdmins(s) ==
  /\ Busy(s) /\ calls[s].pc = "readAdmins"
  /\ calls' = [calls EXCEPT ![s].pc = "readMember",
                            ![s].admins =
                               Cardinality(ActiveAdmins(members, calls[s].project))]
  /\ UNCHANGED <<memberVars, dbVars, brokerVars, extraVars>>

\* the guard with the admin count read at the first await
StaleLastAdminGuard(member, adminCount) ==
  member # Null /\ member.role = "admin" /\ adminCount <= 1

callReadMember(s) ==
  /\ Busy(s) /\ calls[s].pc = "readMember"
  /\ LET c == calls[s] IN
     \E member \in getByProjectAndUser(members, c.project, c.user) :
       IF StaleLastAdminGuard(member, c.admins)
       THEN /\ calls' = [calls EXCEPT ![s] = IdleCall]
            /\ Returned(c.op, c.project, c.user, "LastAdminViolation")
            /\ UNCHANGED <<members, inserted, hadAdmin>>
       ELSE /\ calls' = [calls EXCEPT ![s].pc = "write", ![s].admins = 0]
            /\ UNCHANGED memberVars
  /\ UNCHANGED <<dbVars, brokerVars, extraVars>>

callWrite(s) ==
  /\ Busy(s) /\ calls[s].pc = "write"
  /\ LET c == calls[s]
         rows == RowsOf(members, c.project, c.user)
     IN /\ members' = IF c.op = "ProjectMember.removeMember"
                      THEN Patch(members, rows, LAMBDA r : Deactivated(r))
                      ELSE Patch(members, rows, LAMBDA r : Updated(r, c.role, {}))
        /\ Returned(c.op, c.project, c.user, "ok")
        /\ Track(c.project)
  /\ calls' = [calls EXCEPT ![s] = IdleCall]
  /\ UNCHANGED <<inserted, dbVars, brokerVars, extraVars>>

(***************************************************************************)
(* ProjectDatabase rows, the transaction of POST /:id/databases and the    *)
(* $beforeInsert / $beforeUpdate hooks.  The application database is       *)
(* PostgreSQL: an UPDATE waits while a row it matches is locked by an      *)
(* uncommitted UPDATE of another connection.                               *)
(***************************************************************************)
IdleReq == [pc |-> "idle"]

\* variant: the query matches is_primary = false
PrimariesOf_wrongFlag(tbl, projectId) ==
  {d \in tbl : d.project_id = projectId /\ ~d.is_primary}

\* where project_id = p and is_primary = true, on committed rows
PrimariesOf(tbl, projectId) ==
  {d \in tbl : d.project_id = projectId /\ d.is_primary}

\* row ids locked by the uncommitted patch of request s
LockedBy(s) == IF reqs[s] = IdleReq THEN {} ELSE reqs[s].locked

LockedByOthers(s) == UNION {LockedBy(t) : t \in Slots \ {s}}
LockedByAny == UNION {LockedBy(t) : t \in Slots}

Ids(rows) == {d.id : d \in rows}

Cleared(tbl, ids) ==
  {IF d.id \in ids THEN [d EXCEPT !.is_primary = FALSE] ELSE d : d \in tbl}

\* Project.startTransaction()
dbStart(s, projectId, is_primary) ==
  /\ reqs[s] = IdleReq
  /\ \A t \in Slots : t < s => reqs[t] # IdleReq
  /\ dbMade + Cardinality({t \in Slots : reqs[t] # IdleReq}) < MaxDatabases
  /\ reqs' = [reqs EXCEPT ![s] =
       [pc |-> "patch", project |-> projectId, is_primary |-> is_primary,
        locked |-> {}, cleared |-> {}, id |-> 0]]
  /\ UNCHANGED <<databases, dbMade, dbLast>>

\* ProjectDatabase.query(trx).patch({ is_primary: false }) when is_primary
PatchTargets(s) ==
  IF reqs[s].is_primary THEN Ids(PrimariesOf(databases, reqs[s].project)) ELSE {}

CanPatch(s) == PatchTargets(s) \cap LockedByOthers(s) = {}

dbTrxPatch(s) ==
  /\ reqs[s] # IdleReq /\ reqs[s].pc = "patch"
  /\ CanPatch(s)
  /\ reqs' = [reqs EXCEPT ![s].pc = "hook", ![s].locked = PatchTargets(s)]
  /\ UNCHANGED <<databases, dbMade, dbLast>>

\* $beforeInsert: this.constructor.query() runs on another connection,
\* outside the transaction of the request
HookTargets(s) ==
  IF reqs[s].is_primary THEN Ids(PrimariesOf(databases, reqs[s].project)) ELSE {}

CanHook(s) == HookTargets(s) \cap LockedByAny = {}

dbBeforeInsert(s) ==
  /\ reqs[s] # IdleReq /\ reqs[s].pc = "hook"
  /\ CanHook(s)
  /\ databases' = Cleared(databases, HookTargets(s))
  /\ reqs' = [reqs EXCEPT ![s].pc = "insert", ![s].cleared = HookTargets(s)]
  /\ UNCHANGED <<dbMade, dbLast>>

\* ProjectDatabase.query(trx).insert(...)
dbInsert(s) ==
  /\ reqs[s] # IdleReq /\ reqs[s].pc = "insert"
  /\ dbMade' = dbMade + 1
  /\ reqs' = [reqs EXCEPT ![s].pc = "commit", ![s].id = dbMade + 1]
  /\ UNCHANGED <<databases, dbLast>>

\* trx.commit() and the 201 response
dbCommit(s) ==
  /\ reqs[s] # IdleReq /\ reqs[s].pc = "commit"
  /\ databases' = Cleared(databases, reqs[s].locked) \cup
       {[id |-> reqs[s].id, project_id |-> reqs[s].project,
         is_primary |-> reqs[s].is_primary]}
  /\ dbLast' = [op |-> "POST databases", id |-> reqs[s].id,
                is_primary |-> reqs[s].is_primary, out |-> "created"]
  /\ reqs' = [reqs EXCEPT ![s] = IdleReq]
  /\ UNCHANGED dbMade

\* a statement of the request throws: the catch calls trx.rollback() and the
\* handler answers 500.  The patch made on trx is discarded; what the hook
\* wrote on its own connection was committed when it ran
dbFail(s) ==
  /\ reqs[s] # IdleReq
  /\ dbLast' = [op |-> "POST databases", id |-> 0,
                is_primary |-> reqs[s].is_primary, out |-> "failed"]
  /\ reqs' = [reqs EXCEPT ![s] = IdleReq]
  /\ UNCHANGED <<databases, dbMade>>

\* the request has a statement that the database can execute now
CanStep(s) ==
  /\ reqs[s] # IdleReq
  /\ CASE reqs[s].pc = "patch" -> CanPatch(s)
       [] reqs[s].pc = "hook"  -> CanHook(s)
       [] OTHER                -> TRUE

\* no request is between two of its statements
Quiet == \A s \in Slots : ~CanStep(s)

\* a patch of an existing row through the model, with $beforeUpdate.
\* The hook reads this.$before.is_primary when the patch sets is_primary;
\* nothing sets $before on the instance, so the read throws a TypeError before
\* any statement is sent.  A patch that does not set the flag skips the read.
ProjectDatabase_patch(id, is_primary) ==
  \E row \in {d \in databases : d.id = id} :
    IF is_primary
    THEN /\ dbLast' = [op |-> "patch", id |-> id, is_primary |-> is_primary,
                       out |-> "TypeError"]
         /\ UNCHANGED <<databases, dbMade, reqs>>
    ELSE /\ id \notin LockedByAny
         /\ databases' =
              {IF d.id = id THEN [d EXCEPT !.is_primary = FALSE] ELSE d :
                 d \in databases}
         /\ dbLast' = [op |-> "patch", id |-> id, is_primary |-> is_primary,
                       out |-> "ok"]
         /\ UNCHANGED <<dbMade, reqs>>

(***************************************************************************)
(* getDbConnection and cleanupDbConnections of query.routes.js.  The cache *)
(* is the module-level Map dbConnections, keyed by                         *)
(* `${projectId}:${databaseId}`.  getDbConnection has two awaits: the      *)
(* ProjectDatabase lookup and the SELECT 1 round trip.                     *)
(***************************************************************************)
\* projects that own the databases the connection calls name
BrokerProjects == {"P1", "P2"}

CacheKeys == BrokerProjects \X (1..MaxDatabases)

\* errors of the database driver: message and code
DriverErrors == {[message |-> <<"connection refused">>, code |-> "ECONNREFUSED"]}

\* a statement sent to the database returns, or throws a driver error
Ok == [message |-> <<>>, code |-> "ok"]
Outcomes == {Ok} \cup DriverErrors

\* new Error(text) has no code
ErrorOf(message) == [message |-> message, code |-> "undefined"]

NoError == [message |-> <<>>, code |-> "none"]

IdleConn == [pc |-> "idle"]

NoConnResult ==
  [op |-> "none", project |-> "P1", database |-> 0, out |-> "none",
   handle |-> 0, cached |-> FALSE, error |-> NoError, closed |-> {}]

InFlight(s) == conns[s] # IdleConn

\* variant: the lookup has no where('project_id', projectId)
FindDatabase_anyProject(projectId, databaseId) ==
  {d \in databases : d.id = databaseId}

\* ProjectDatabase.query().findById(databaseId).where('project_id', projectId)
FindDatabase(projectId, databaseId) ==
  {d \in databases : d.id = databaseId /\ d.project_id = projectId}

\* getDbConnection returns connection to its caller: a direct caller is done,
\* POST /execute goes on to dbConnection.raw(query, params), POST /ask to the
\* query that reads the schema
Resolved(s, c, handle, cached) ==
  /\ connLast' = [op |-> "getDbConnection", project |-> c.project,
                  database |-> c.database, out |-> "handle",
                  handle |-> handle, cached |-> cached, error |-> NoError,
                  closed |-> {}]
  /\ conns' = [conns EXCEPT ![s] =
       CASE c.kind = "execute" -> [c EXCEPT !.pc = "raw", !.handle = handle]
         [] c.kind = "ask"     -> [c EXCEPT !.pc = "schema", !.handle = handle]
         [] OTHER              -> IdleConn]

\* getDbConnection throws: POST /execute and POST /ask go to their catch block
Rejected(s, c, out, error) ==
  /\ connLast' = [op |-> "getDbConnection", project |-> c.project,
                  database |-> c.database, out |-> out,
                  handle |-> 0, cached |-> FALSE, error |-> error,
                  closed |-> {}]
  /\ conns' = [conns EXCEPT ![s] =
       IF c.kind \in {"execute", "ask"}
       THEN [c EXCEPT !.pc = "logFailure", !.error = error]
       ELSE IdleConn]

\* the code up to the first await: the cache check
Entered(s, c) ==
  LET cacheKey == <<c.project, c.database>> IN
  IF dbConnections[cacheKey] # 0
  THEN Resolved(s, c, dbConnections[cacheKey], TRUE)
  ELSE /\ conns' = [conns EXCEPT ![s] = c]
       /\ UNCHANGED connLast

getDbConnectionStart(s, projectId, databaseId) ==
  /\ conns[s] = IdleConn
  /\ \A t \in Slots : t < s => InFlight(t)
  /\ Entered(s, [pc |-> "lookup", kind |-> "getDbConnection",
                 project |-> projectId, database |-> databaseId,
                 handle |-> 0, req |-> 0, error |-> NoError, storeOk |-> TRUE])
  /\ UNCHANGED <<dbConnections, destroyed, opened, history, execMade, execLast>>

\* the lookup has returned; knex({...}) builds the handle
getDbConnectionLookup(s) ==
  /\ InFlight(s) /\ conns[s].pc = "lookup"
  /\ LET c == conns[s] IN
     IF FindDatabase(c.project, c.database) = {}
     THEN /\ Rejected(s, c, "DatabaseNotFound",
                      ErrorOf(<<"Database not found or access denied">>))
          /\ UNCHANGED opened
     ELSE /\ opened < MaxHandles
          /\ opened' = opened + 1
          /\ conns' = [conns EXCEPT ![s].pc = "validate", ![s].handle = opened + 1]
          /\ UNCHANGED connLast
  /\ UNCHANGED <<dbConnections, destroyed, history, execMade, execLast>>

\* variant: the handle is cached although the round trip failed
CacheAfter_always(roundTrip, cacheKey, connection) ==
  [dbConnections EXCEPT ![cacheKey] = connection]

\* dbConnections after the try / catch around connection.raw('SELECT 1')
CacheAfter(roundTrip, cacheKey, connection) ==
  IF roundTrip = Ok
  THEN [dbConnections EXCEPT ![cacheKey] = connection]
  ELSE dbConnections

\* the round trip has returned or thrown
getDbConnectionValidate(s, roundTrip) ==
  /\ InFlight(s) /\ conns[s].pc = "validate"
  /\ LET c == conns[s] IN
     /\ dbConnections' = CacheAfter(roundTrip, <<c.project, c.database>>, c.handle)
     /\ IF roundTrip = Ok
        THEN /\ Resolved(s, c, c.handle, FALSE)
             /\ UNCHANGED destroyed
        ELSE /\ destroyed' = destroyed \cup {c.handle}
             /\ Rejected(s, c, "ConnectionFailed",
                  ErrorOf(<<"Failed to connect to database: ">> \o roundTrip.message))
  /\ UNCHANGED <<opened, history, execMade, execLast>>

\* handles the Map holds
CachedHandles == {dbConnections[k] : k \in CacheKeys} \ {0}

\* variant: no try / catch inside the loop, the first throw ends it
ClosedByCleanup_stopAtThrow(thrown) ==
  {h \in CachedHandles : \A t \in thrown : h < t}

\* handles on which connection.destroy() returns during the loop; the Map is
\* walked in insertion order, a throw is caught and the loop goes on
ClosedByCleanup(thrown) == CachedHandles \ thrown

\* variant: the handles are destroyed and the entries stay in the Map
CacheAfterCleanup_kept(thrown) == dbConnections

\* dbConnections after the loop of cleanupDbConnections: delete(key) runs
\* for the entries whose destroy() returned
CacheAfterCleanup(thrown) ==
  [k \in CacheKeys |->
     IF dbConnections[k] \in ClosedByCleanup(thrown) THEN 0 ELSE dbConnections[k]]

\* the SIGTERM / SIGINT handler: a synchronous loop over the entries.
\* destroy() of a handle can fail in two ways: it throws (thrown), which the
\* catch logs, or the promise it returns rejects (rejected), which nothing
\* in the loop awaits
cleanupDbConnections(thrown, rejected) ==
  /\ thrown \subseteq CachedHandles
  /\ rejected \subseteq CachedHandles \ thrown
  /\ destroyed' = destroyed \cup (ClosedByCleanup(thrown) \ rejected)
  /\ dbConnections' = CacheAfterCleanup(thrown)
  /\ connLast' = [NoConnResult EXCEPT
                    !.op = "cleanupDbConnections",
                    !.out = IF thrown = {} THEN "done" ELSE "logged",
                    !.closed = ClosedByCleanup(thrown) \ rejected]
  /\ UNCHANGED <<opened, conns, history, execMade, execLast>>

(***************************************************************************)
(* POST /execute of query.routes.js, from the destructuring of req.body:   *)
(* getDbConnection, dbConnection.raw, the history insert and the response, *)
(* and the catch block with its own history insert.                        *)
(***************************************************************************)
NoResponse ==
  [kind |-> "none", req |-> 0, project |-> "P1", database |-> 0, status |-> 0,
   thrown |-> NoError, error |-> <<>>, code |-> "none", storeOk |-> TRUE]

\* the history of a project; the catch block passes req.params.project_id,
\* which the route /execute does not have
NoProject == "undefined"

\* what the insert of the catch block does with .for(undefined) when the
\* table accepts writes: the ORM rejects the insert, or the row is stored
\* under no project
ForUndefinedOutcomes == {"throws", "row"}

HistoryError == [message |-> <<"insert into query_history failed">>, code |-> "57P01"]

executeStart(s, projectId, databaseId) ==
  /\ conns[s] = IdleConn
  /\ \A t \in Slots : t < s => InFlight(t)
  /\ execMade < MaxExecutes
  /\ execMade' = execMade + 1
  /\ Entered(s, [pc |-> "lookup", kind |-> "execute",
                 project |-> projectId, database |-> databaseId,
                 handle |-> 0, req |-> execMade + 1, error |-> NoError,
                 storeOk |-> TRUE])
  /\ UNCHANGED <<dbConnections, destroyed, opened, history, execLast>>

\* dbConnection.raw(query, params) has returned or thrown
executeRaw(s, result) ==
  /\ InFlight(s) /\ conns[s].pc = "raw" /\ conns[s].kind = "execute"
  /\ conns' = [conns EXCEPT ![s] =
       IF result = Ok
       THEN [@ EXCEPT !.pc = "logSuccess"]
       ELSE [@ EXCEPT !.pc = "logFailure", !.error = result]]
  /\ UNCHANGED <<dbConnections, destroyed, opened, connLast, history, execMade, execLast>>

\* is_ai_generated of the body defaults to false on /execute; /ask writes true
Entry(c, projectId, error) ==
  [req |-> c.req, project |-> projectId, database |-> c.database, error |-> error,
   is_ai_generated |-> (c.kind = "ask")]

\* the insert of the try block and res.json; an insert that throws lands in
\* the catch block
executeLogSuccess(s, storeOk) ==
  /\ InFlight(s) /\ conns[s].pc = "logSuccess" /\ conns[s].kind = "execute"
  /\ LET c == conns[s] IN
     IF storeOk
     THEN /\ history' = history \cup {Entry(c, c.project, <<>>)}
          /\ execLast' = [NoResponse EXCEPT !.kind = c.kind, !.req = c.req,
                            !.project = c.project,
                            !.database = c.database, !.status = 200,
                            !.storeOk = c.storeOk]
          /\ conns' = [conns EXCEPT ![s] = IdleConn]
     ELSE /\ conns' = [conns EXCEPT ![s].pc = "logFailure",
                                    ![s].error = HistoryError,
                                    ![s].storeOk = FALSE]
          /\ UNCHANGED <<history, execLast>>
  /\ UNCHANGED <<dbConnections, destroyed, opened, connLast, execMade>>

\* variant: the error of the history insert is the one reported
FailureResponse_logError(error, logError) ==
  LET e == IF logError = NoError THEN error ELSE logError IN
  [status |-> 500,
   error  |-> IF e.message = <<>> THEN <<"Failed to execute query">> ELSE e.message,
   code   |-> e.code]

\* res.status(500).json({ error: error.message || '...', code: error.code })
FailureResponse(error, logError) ==
  [status |-> 500,
   error  |-> IF error.message = <<>> THEN <<"Failed to execute query">> ELSE error.message,
   code   |-> error.code]

\* the catch block: the insert for req.params.project_id inside its own
\* try / catch, then the 500 response
executeLogFailure(s, storeOk, forUndefined) ==
  /\ InFlight(s) /\ conns[s].pc = "logFailure" /\ conns[s].kind = "execute"
  /\ LET c == conns[s]
         written == storeOk /\ forUndefined = "row"
         logError == IF written THEN NoError ELSE HistoryError
         response == FailureResponse(c.error, logError)
     IN /\ history' = IF written
                      THEN history \cup {Entry(c, NoProject, c.error.message)}
                      ELSE history
        /\ execLast' = [kind |-> c.kind,
                        req |-> c.req, project |-> c.project, database |-> c.database,
                        status |-> response.status, thrown |-> c.error,
                        error |-> response.error, code |-> response.code,
                        storeOk |-> c.storeOk /\ storeOk]
        /\ conns' = [conns EXCEPT ![s] = IdleConn]
  /\ UNCHANGED <<dbConnections, destroyed, opened, connLast, execMade>>

(***************************************************************************)
(* POST /ask of query.routes.js: getDbConnection, the query that reads the *)
(* schema, AIService.translateQuery, db.raw of the translation, the        *)
(* history insert and the response, and the catch block with its own       *)
(* history insert.                                                         *)
(***************************************************************************)
TranslationError == [message |-> <<"translation failed">>, code |-> "undefined"]

\* AIService.translateQuery returns a translation or throws
TranslateOutcomes == {Ok, TranslationError}

askStart(s, projectId, databaseId) ==
  /\ conns[s] = IdleConn
  /\ \A t \in Slots : t < s => InFlight(t)
  /\ execMade < MaxExecutes
  /\ execMade' = execMade + 1
  /\ Entered(s, [pc |-> "lookup", kind |-> "ask",
                 project |-> projectId, database |-> databaseId,
                 handle |-> 0, req |-> execMade + 1, error |-> NoError,
                 storeOk |-> TRUE])
  /\ UNCHANGED <<dbConnections, destroyed, opened, history, execLast>>

\* an awaited call of the try block has returned or thrown
askAwait(s, pc, result, next) ==
  /\ InFlight(s) /\ conns[s].pc = pc /\ conns[s].kind = "ask"
  /\ conns' = [conns EXCEPT ![s] =
       IF result = Ok
       THEN [@ EXCEPT !.pc = next]
       ELSE [@ EXCEPT !.pc = "logFailure", !.error = result]]
  /\ UNCHANGED <<dbConnections, destroyed, opened, connLast, history, execMade, execLast>>

\* db.raw(`SELECT ... FROM information_schema.columns ...`)
askSchema(s, result) == askAwait(s, "schema", result, "translate")

\* AIService.translateQuery(question, {...})
askTranslate(s, result) == askAwait(s, "translate", result, "raw")

\* db.raw(translation.query, translation.parameters || [])
askRaw(s, result) == askAwait(s, "raw", result, "logSuccess")

\* the insert of the try block and res.json
askLogSuccess(s, storeOk) ==
  /\ InFlight(s) /\ conns[s].pc = "logSuccess" /\ conns[s].kind = "ask"
  /\ LET c == conns[s] IN
     IF storeOk
     THEN /\ history' = history \cup {Entry(c, c.project, <<>>)}
          /\ execLast' = [NoResponse EXCEPT !.kind = c.kind, !.req = c.req,
                            !.project = c.project,
                            !.database = c.database, !.status = 200,
                            !.storeOk = c.storeOk]
          /\ conns' = [conns EXCEPT ![s] = IdleConn]
     ELSE /\ conns' = [conns EXCEPT ![s].pc = "logFailure",
                                    ![s].error = HistoryError,
                                    ![s].storeOk = FALSE]
          /\ UNCHANGED <<history, execLast>>
  /\ UNCHANGED <<dbConnections, destroyed, opened, connLast, execMade>>

\* the catch block: the insert for req.params.project_id inside its own
\* try / catch, then the 500 response, which has no code
askLogFailure(s, storeOk, forUndefined) ==
  /\ InFlight(s) /\ conns[s].pc = "logFailure" /\ conns[s].kind = "ask"
  /\ LET c == conns[s]
         written == storeOk /\ forUndefined = "row"
     IN /\ history' = IF written
                      THEN history \cup {Entry(c, NoProject, c.error.message)}
                      ELSE history
        /\ execLast' = [kind |-> c.kind,
                        req |-> c.req, project |-> c.project, database |-> c.database,
                        status |-> 500, thrown |-> c.error,
                        error |-> IF c.error.message = <<>>
                                  THEN <<"Failed to process your question">>
                                  ELSE c.error.message,
                        code |-> "none",
                        storeOk |-> c.storeOk /\ storeOk]
        /\ conns' = [conns EXCEPT ![s] = IdleConn]
  /\ UNCHANGED <<dbConnections, destroyed, opened, connLast, execMade>>

(***************************************************************************)
(* Round trips to the target database that get no answer.  The awaits on   *)
(* connection.raw('SELECT 1'), dbConnection.raw(query, params) and the two *)
(* db.raw calls of /ask are plain awaits: no timeout() is set on the       *)
(* query and no timer races the promise, so a call whose promise does not  *)
(* settle has no next step.                                                *)
(***************************************************************************)
\* the awaits on the target database
DatabaseAwaits == {"validate", "schema", "raw"}

\* the database has taken the statement and never answers
neverAnswers(s) ==
  /\ InFlight(s) /\ conns[s].pc \in DatabaseAwaits
  /\ conns' = [conns EXCEPT ![s].pc = "pending"]
  /\ UNCHANGED <<dbConnections, destroyed, opened, connLast, history, execMade, execLast>>

(***************************************************************************)
(* Connection configuration.  ProjectDatabase.getConnectionConfig is a     *)
(* switch over the type of the row; getDbConnection does not call it and   *)
(* builds the knex configuration from the row itself.                      *)
(***************************************************************************)
\* the enum of ProjectDatabase.jsonSchema and of the body('type') validator
RegistrableTypes == {"postgresql", "mysql", "mongodb", "sqlite", "mssql"}

\* the registrable types and one that is not
DatabaseTypes == RegistrableTypes \cup {"oracle"}

\* connection_config.port when the key is absent
NoPort == 0

\* values of connection_config.port
ConfigPorts == {NoPort, 5432, 3306, 27017, 6000}

NoConfig ==
  [op |-> "none", type |-> "postgresql", port |-> NoPort, ssl |-> FALSE,
   out |-> "none", client |-> "none", usedPort |-> NoPort, usedSsl |-> "none"]

Config(client, usedPort, usedSsl) ==
  [out |-> "config", client |-> client, usedPort |-> usedPort, usedSsl |-> usedSsl]

Thrown(out) ==
  [out |-> out, client |-> "none", usedPort |-> NoPort, usedSsl |-> "none"]

\* config.port || n
PortOr(port, n) == IF port = NoPort THEN n ELSE port

\* the switch of getConnectionConfig: three cases and the default
getConnectionConfig(type, port, ssl) ==
  CASE type = "postgresql" ->
         Config("pg", PortOr(port, 5432),
                IF ssl THEN "rejectUnauthorized: false" ELSE "false")
    [] type = "mysql" ->
         Config("mysql2", PortOr(port, 3306),
                IF ssl THEN "rejectUnauthorized: false" ELSE "undefined")
    [] type = "mongodb" ->
         Config("mongodb", PortOr(port, 27017), IF ssl THEN "true" ELSE "false")
    [] OTHER -> Thrown("Unsupported database type")

\* the object getDbConnection passes to knex(): client is database.type and
\* the connection is connection_config as stored
knexConfig(type, port, ssl) ==
  Config(type, port, IF ssl THEN "rejectUnauthorized: false" ELSE "false")

ConfigBuilt(op, type, port, ssl, result) ==
  /\ cfgLast' = [op |-> op, type |-> type, port |-> port, ssl |-> ssl,
                 out |-> result.out, client |-> result.client,
                 usedPort |-> result.usedPort, usedSsl |-> result.usedSsl]
  /\ UNCHANGED <<memberVars, calls, dbVars, brokerVars, projects, createLast>>

ProjectDatabase_getConnectionConfig(type, port, ssl) ==
  ConfigBuilt("getConnectionConfig", type, port, ssl,
              getConnectionConfig(type, port, ssl))

getDbConnection_knexConfig(type, port, ssl) ==
  ConfigBuilt("getDbConnection", type, port, ssl, knexConfig(type, port, ssl))

(***************************************************************************)
(* Project creation: the POST / handler of project.routes.js, which works  *)
(* in a transaction, and Project.createFromTemplate and                    *)
(* ProjectTemplate.createProject, which insert the project and then call   *)
(* project.addMember.  Each statement sent to the database can fail.       *)
(***************************************************************************)
NoCreation == [op |-> "none", user |-> "A", project |-> "none", out |-> "none"]

\* uuidv4(): the id of the n-th project
NewProjectId(n) ==
  CASE n = 1 -> "N1" [] n = 2 -> "N2" [] n = 3 -> "N3" [] OTHER -> "N4"

NextProjectId == NewProjectId(Cardinality(projects) + 1)

ProjectRow(projectId, userId) == [id |-> projectId, created_by |-> userId]

\* the row of the creator: role admin, permissions filled by $beforeInsert
CreatorRow(projectId, userId) ==
  [id          |-> <<userId, 1>>,
   project_id  |-> projectId,
   user_id     |-> userId,
   role        |-> "admin",
   permissions |-> getRolePermissions("admin"),
   is_active   |-> TRUE]

Created(op, userId, projectId, out) ==
  /\ createLast' = [op |-> op, user |-> userId, project |-> projectId, out |-> out]
  /\ UNCHANGED <<inserted, hadAdmin, last, calls, dbVars, brokerVars, cfgLast>>

\* POST /: both inserts run on trx; an error rolls the transaction back
Route_createProject(userId, projectOk, memberOk) ==
  /\ Cardinality(projects) < MaxProjects
  /\ IF projectOk /\ memberOk
     THEN /\ projects' = projects \cup {ProjectRow(NextProjectId, userId)}
          /\ members' = members \cup {CreatorRow(NextProjectId, userId)}
          /\ Created("POST projects", userId, NextProjectId, "created")
     ELSE /\ UNCHANGED <<projects, members>>
          /\ Created("POST projects", userId, NextProjectId, "failed")

\* this.query().insert(...) followed by project.addMember(userId, 'admin'):
\* two statements, each committed on its own
InsertThenAddMember(op, userId, projectOk, memberOk) ==
  IF ~projectOk
  THEN /\ UNCHANGED <<projects, members>>
       /\ Created(op, userId, NextProjectId, "failed")
  ELSE /\ projects' = projects \cup {ProjectRow(NextProjectId, userId)}
       /\ IF memberOk
          THEN /\ members' = members \cup {CreatorRow(NextProjectId, userId)}
               /\ Created(op, userId, NextProjectId, "created")
          ELSE /\ UNCHANGED members
               /\ Created(op, userId, NextProjectId, "failed")

Project_createFromTemplate(template, userId, projectOk, memberOk) ==
  /\ Cardinality(projects) < MaxProjects
  /\ IF ~template
     THEN /\ UNCHANGED <<projects, members>>
          /\ Created("Project.createFromTemplate", userId, NextProjectId,
                     "Template not found")
     ELSE InsertThenAddMember("Project.createFromTemplate", userId,
                              projectOk, memberOk)

\* the project and its creator are stored before project.importData runs
ProjectTemplate_createProject(userId, projectOk, memberOk) ==
  /\ Cardinality(projects) < MaxProjects
  /\ InsertThenAddMember("ProjectTemplate.createProject", userId,
                         projectOk, memberOk)

(***************************************************************************)
(* Role checks: Project.userHasRole, authorizeProject and                  *)
(* BaseModel.checkPermission.  Each looks the role up in the same object   *)
(* { user: 1, editor: 2, admin: 3 }; a key that is missing reads as        *)
(* undefined, and every comparison with undefined is false.                *)
(***************************************************************************)
Undefined == -1

roleHierarchy(role) ==
  CASE role = "user"   -> 1
    [] role = "editor" -> 2
    [] role = "admin"  -> 3
    [] OTHER           -> Undefined

\* a >= b and a < b on numbers or undefined
JsGte(a, b) == a # Undefined /\ b # Undefined /\ a >= b
JsLt(a, b) == a # Undefined /\ b # Undefined /\ a < b

\* the results the call can return, one for each row .first() can pick
Project_userHasRole(tbl, projectId, userId, requiredRole) ==
  {IF userProject = Null
   THEN FALSE
   ELSE JsGte(roleHierarchy(userProject.role), roleHierarchy(requiredRole)) :
     userProject \in getByProjectAndUser(tbl, projectId, userId)}

\* projectId is req.params.projectId; "next" is the call of next()
authorizeProject(tbl, projectId, userId, requiredRole) ==
  IF projectId = "undefined"
  THEN {"400"}
  ELSE {IF userProject = Null
        THEN "403"
        ELSE IF JsLt(roleHierarchy(userProject.role), roleHierarchy(requiredRole))
             THEN "403"
             ELSE "next" :
          userProject \in getByProjectAndUser(tbl, projectId, userId)}

\* the routes that use authorizeProject, with the names of their path
\* parameters: the project routes name the project :id, the query routes
\* have no path parameter and read project_id from the body or the query
GuardedRoutes ==
  {[route |-> "GET /:id",                    params |-> {"id"}],
   [route |-> "PUT /:id",                    params |-> {"id"}],
   [route |-> "POST /:id/databases",         params |-> {"id"}],
   [route |-> "GET /:id/members",            params |-> {"id"}],
   [route |-> "POST /:id/members",           params |-> {"id"}],
   [route |-> "DELETE /:id/members/:userId", params |-> {"id", "userId"}],
   [route |-> "POST /translate",             params |-> {}],
   [route |-> "POST /execute",               params |-> {}],
   [route |-> "POST /ask",                   params |-> {}],
   [route |-> "GET /history",                params |-> {}]}

\* req.params.projectId of a request on the route for project projectId
ParamsProjectId(route, projectId) ==
  IF "projectId" \in route.params THEN projectId ELSE "undefined"

\* the middleware as it runs in front of the handler of a route
authorizeRequest(tbl, route, projectId, userId, requiredRole) ==
  authorizeProject(tbl, ParamsProjectId(route, projectId), userId, requiredRole)

BaseModel_checkPermission(tbl, userId, projectId, requiredRole) ==
  IF userId = "undefined"
  THEN {FALSE}
  ELSE {IF userProject = Null
        THEN FALSE
        ELSE JsGte(roleHierarchy(userProject.role), roleHierarchy(requiredRole)) :
          userProject \in getByProjectAndUser(tbl, projectId, userId)}

(***************************************************************************)
(* Permission checks of ProjectMember.  A permission argument is a single  *)
(* permission or an array of permissions.                                  *)
(***************************************************************************)
PermissionArgs ==
  {[array |-> FALSE, items |-> {x}] : x \in Permissions} \cup
  {[array |-> TRUE, items |-> xs] : xs \in SUBSET Permissions}

\* instance method hasPermission(permission), for a single permission
hasPermission(member, permission) ==
  IF member.role = "admin"
  THEN TRUE
  ELSE \E x \in permission.items : x \in member.permissions

\* instance method hasAnyPermission(permissions)
hasAnyPermission(member, permissions) ==
  IF ~permissions.array
  THEN hasPermission(member, permissions)
  ELSE IF member.role = "admin"
       THEN TRUE
       ELSE \E x \in permissions.items : x \in member.permissions

\* variant: the query does not filter on is_active
ProjectMember_hasPermission_anyRow(tbl, projectId, userId, permission) ==
  {IF member = Null
   THEN FALSE
   ELSE IF member.role = "admin"
        THEN TRUE
        ELSE \E x \in permission.items : x \in member.permissions :
     member \in First(RowsOf(tbl, projectId, userId))}

\* static hasPermission(projectId, userId, permission): the results it can
\* return, one for each row .first() can pick
ProjectMember_hasPermission(tbl, projectId, userId, permission) ==
  {IF member = Null
   THEN FALSE
   ELSE IF member.role = "admin"
        THEN TRUE
        ELSE \E x \in permission.items : x \in member.permissions :
     member \in First({r \in RowsOf(tbl, projectId, userId) : r.is_active})}

(***************************************************************************)
(* Specifications                                                          *)
(***************************************************************************)
Init ==
  /\ members = {}
  /\ inserted = [p \in Projects |-> [u \in Users |-> 0]]
  /\ hadAdmin = {}
  /\ last = [op |-> "none", project |-> "P1", user |-> "A", out |-> "none"]
  /\ calls = [s \in Slots |-> IdleCall]
  /\ databases = {}
  /\ dbMade = 0
  /\ reqs = [s \in Slots |-> IdleReq]
  /\ dbLast = [op |-> "none", id |-> 0, is_primary |-> FALSE, out |-> "none"]
  /\ dbConnections = [k \in CacheKeys |-> 0]
  /\ destroyed = {}
  /\ opened = 0
  /\ conns = [s \in Slots |-> IdleConn]
  /\ connLast = NoConnResult
  /\ history = {}
  /\ execMade = 0
  /\ execLast = NoResponse
  /\ cfgLast = NoConfig
  /\ projects = {}
  /\ createLast = NoCreation

\* the ProjectMember static methods, one call after another
MemberNext ==
  \E p \in Projects, u \in Users :
    /\ \/ \E role \in Roles, c \in CustomLists : ProjectMember_addMember(p, u, role, c)
       \/ ProjectMember_removeMember(p, u)
       \/ \E role \in Roles, c \in CustomLists : ProjectMember_updateMember(p, u, role, c)
    /\ Track(p)
    /\ UNCHANGED <<calls, dbVars, brokerVars, extraVars>>

\* every membership operation of the repository, one call after another
Next ==
  \E p \in Projects, u \in Users :
    /\ \/ \E role \in Roles, c \in CustomLists : ProjectMember_addMember(p, u, role, c)
       \/ ProjectMember_removeMember(p, u)
       \/ \E role \in Roles, c \in CustomLists : ProjectMember_updateMember(p, u, role, c)
       \/ \E role \in Roles : Project_addMember(p, u, role)
       \/ Project_removeMember(p, u)
       \/ \E role \in Roles : Route_addMember(p, u, role)
       \/ \E actor \in Users : Route_removeMember(p, u, actor)
    /\ Track(p)
    /\ UNCHANGED <<calls, dbVars, brokerVars, extraVars>>

\* ProjectMember.removeMember and role-downgrade requests that interleave at
\* their awaits; members are added by ProjectMember.addMember while no such
\* request is in flight
ConcNext ==
  \/ \E p \in Projects, u \in Users, role \in ConcRoles :
       /\ \A s \in Slots : ~Busy(s)
       /\ ProjectMember_addMember(p, u, role, {})
       /\ Track(p)
       /\ UNCHANGED <<calls, dbVars, brokerVars, extraVars>>
  \/ \E s \in Slots, p \in Projects, u \in Users :
       callStart(s, "ProjectMember.removeMember", p, u, "none")
  \/ \E s \in Slots, p \in Projects, u \in Users, role \in DowngradeRoles :
       callStart(s, "ProjectMember.updateMember", p, u, role)
  \/ \E s \in Slots : callReadAdmins(s)
  \/ \E s \in Slots : callReadMember(s)
  \/ \E s \in Slots : callWrite(s)

\* database registrations and primary-flag updates, one request after
\* another: a request starts when no earlier one can take a step
DbNext ==
  \/ \E s \in Slots, p \in Projects, is_primary \in BOOLEAN :
       /\ Quiet
       /\ dbStart(s, p, is_primary)
       /\ UNCHANGED <<memberVars, calls, brokerVars, extraVars>>
  \/ \E s \in Slots :
       /\ \/ dbTrxPatch(s)
          \/ dbBeforeInsert(s)
          \/ dbInsert(s)
          \/ dbCommit(s)
       /\ UNCHANGED <<memberVars, calls, brokerVars, extraVars>>
  \/ \E id \in 1..MaxDatabases, is_primary \in BOOLEAN :
       /\ Quiet
       /\ ProjectDatabase_patch(id, is_primary)
       /\ UNCHANGED <<memberVars, calls, brokerVars, extraVars>>

\* database registrations and requests that mark an existing row primary,
\* interleaved at their awaits: a request starts whatever the others are doing
DbConcNext ==
  \/ \E s \in Slots, p \in Projects, is_primary \in BOOLEAN :
       /\ dbStart(s, p, is_primary)
       /\ UNCHANGED <<memberVars, calls, brokerVars, extraVars>>
  \/ \E s \in Slots :
       /\ \/ dbTrxPatch(s)
          \/ dbBeforeInsert(s)
          \/ dbInsert(s)
          \/ dbCommit(s)
       /\ UNCHANGED <<memberVars, calls, brokerVars, extraVars>>
  \/ \E id \in 1..MaxDatabases :
       /\ ProjectDatabase_patch(id, TRUE)
       /\ UNCHANGED <<memberVars, calls, brokerVars, extraVars>>

\* interleaved registrations in which a statement can fail
DbFailNext ==
  \/ DbConcNext
  \/ \E s \in Slots :
       /\ dbFail(s)
       /\ UNCHANGED <<memberVars, calls, brokerVars, extraVars>>

NoneInFlight == \A s \in Slots : ~InFlight(s)

\* database ids a call names: the registered ones and one that is not
\* registered yet (ids that are not registered all behave alike)
CallDatabases ==
  1..(IF dbMade < MaxDatabases THEN dbMade + 1 ELSE MaxDatabases)

\* a database is registered for one of the projects the connection calls
\* name, while no such call is in flight
RegisterStep ==
  \/ \E s \in Slots, p \in BrokerProjects :
       /\ Quiet /\ NoneInFlight
       /\ dbStart(s, p, FALSE)
       /\ UNCHANGED <<memberVars, calls, brokerVars, extraVars>>
  \/ \E s \in Slots :
       /\ \/ dbTrxPatch(s)
          \/ dbBeforeInsert(s)
          \/ dbInsert(s)
          \/ dbCommit(s)
       /\ UNCHANGED <<memberVars, calls, brokerVars, extraVars>>

\* getDbConnection and cleanupDbConnections, one call after another
SeqBrokerNext ==
  \/ RegisterStep
  \/ \E s \in Slots, p \in BrokerProjects, d \in CallDatabases :
       /\ Quiet /\ NoneInFlight
       /\ getDbConnectionStart(s, p, d)
       /\ UNCHANGED <<memberVars, calls, dbVars, extraVars>>
  \/ \E s \in Slots :
       /\ Quiet
       /\ getDbConnectionLookup(s)
       /\ UNCHANGED <<memberVars, calls, dbVars, extraVars>>
  \/ \E s \in Slots, roundTrip \in Outcomes :
       /\ Quiet
       /\ getDbConnectionValidate(s, roundTrip)
       /\ UNCHANGED <<memberVars, calls, dbVars, extraVars>>
  \/ /\ Quiet /\ NoneInFlight
     /\ cleanupDbConnections({}, {})
     /\ UNCHANGED <<memberVars, calls, dbVars, extraVars>>

\* getDbConnection calls for the registered databases of one project, one
\* after another, and signal handlers in which destroy() of some of the
\* cached handles fails
ShutdownNext ==
  \/ \E s \in Slots, p \in Projects :
       /\ Quiet /\ NoneInFlight
       /\ dbStart(s, p, FALSE)
       /\ UNCHANGED <<memberVars, calls, brokerVars, extraVars>>
  \/ \E s \in Slots :
       /\ \/ dbTrxPatch(s)
          \/ dbBeforeInsert(s)
          \/ dbInsert(s)
          \/ dbCommit(s)
       /\ UNCHANGED <<memberVars, calls, brokerVars, extraVars>>
  \/ \E s \in Slots, p \in Projects, d \in 1..dbMade :
       /\ Quiet /\ NoneInFlight
       /\ getDbConnectionStart(s, p, d)
       /\ UNCHANGED <<memberVars, calls, dbVars, extraVars>>
  \/ \E s \in Slots :
       /\ Quiet
       /\ getDbConnectionLookup(s)
       /\ UNCHANGED <<memberVars, calls, dbVars, extraVars>>
  \/ \E s \in Slots, roundTrip \in Outcomes :
       /\ Quiet
       /\ getDbConnectionValidate(s, roundTrip)
       /\ UNCHANGED <<memberVars, calls, dbVars, extraVars>>
  \/ \E thrown \in SUBSET CachedHandles, rejected \in SUBSET CachedHandles :
       /\ Quiet /\ NoneInFlight
       /\ Cardinality(thrown \cup rejected) <= MaxCloseFailures
       /\ cleanupDbConnections(thrown, rejected)
       /\ UNCHANGED <<memberVars, calls, dbVars, extraVars>>

\* POST /ask requests, one after another
AskNext ==
  \/ RegisterStep
  \/ \E s \in Slots, p \in BrokerProjects, d \in CallDatabases :
       /\ Quiet /\ NoneInFlight
       /\ askStart(s, p, d)
       /\ UNCHANGED <<memberVars, calls, dbVars, extraVars>>
  \/ \E s \in Slots :
       /\ Quiet
       /\ getDbConnectionLookup(s)
       /\ UNCHANGED <<memberVars, calls, dbVars, extraVars>>
  \/ \E s \in Slots, roundTrip \in Outcomes :
       /\ Quiet
       /\ getDbConnectionValidate(s, roundTrip)
       /\ UNCHANGED <<memberVars, calls, dbVars, extraVars>>
  \/ \E s \in Slots, result \in Outcomes :
       /\ askSchema(s, result)
       /\ UNCHANGED <<memberVars, calls, dbVars, extraVars>>
  \/ \E s \in Slots, result \in TranslateOutcomes :
       /\ askTranslate(s, result)
       /\ UNCHANGED <<memberVars, calls, dbVars, extraVars>>
  \/ \E s \in Slots, result \in Outcomes :
       /\ askRaw(s, result)
       /\ UNCHANGED <<memberVars, calls, dbVars, extraVars>>
  \/ \E s \in Slots, storeOk \in BOOLEAN :
       /\ askLogSuccess(s, storeOk)
       /\ UNCHANGED <<memberVars, calls, dbVars, extraVars>>
  \/ \E s \in Slots, storeOk \in BOOLEAN, forUndefined \in ForUndefinedOutcomes :
       /\ askLogFailure(s, storeOk, forUndefined)
       /\ UNCHANGED <<memberVars, calls, dbVars, extraVars>>

\* connection configurations built for rows of every type
ConfigNext ==
  \E type \in DatabaseTypes, port \in ConfigPorts, ssl \in BOOLEAN :
    \/ ProjectDatabase_getConnectionConfig(type, port, ssl)
    \/ getDbConnection_knexConfig(type, port, ssl)

\* projects created through each of the three paths, one after another
CreateNext ==
  \E u \in Users, projectOk \in BOOLEAN, memberOk \in BOOLEAN :
    \/ Route_createProject(u, projectOk, memberOk)
    \/ \E template \in BOOLEAN : Project_createFromTemplate(template, u, projectOk, memberOk)
    \/ ProjectTemplate_createProject(u, projectOk, memberOk)

\* getDbConnection calls that interleave at their awaits, and the signal
\* handler at any moment
BrokerNext ==
  \/ RegisterStep
  \/ \E s \in Slots, p \in BrokerProjects, d \in CallDatabases :
       /\ Quiet
       /\ getDbConnectionStart(s, p, d)
       /\ UNCHANGED <<memberVars, calls, dbVars, extraVars>>
  \/ \E s \in Slots :
       /\ Quiet
       /\ getDbConnectionLookup(s)
       /\ UNCHANGED <<memberVars, calls, dbVars, extraVars>>
  \/ \E s \in Slots, roundTrip \in Outcomes :
       /\ Quiet
       /\ getDbConnectionValidate(s, roundTrip)
       /\ UNCHANGED <<memberVars, calls, dbVars, extraVars>>
  \/ /\ Quiet
     /\ cleanupDbConnections({}, {})
     /\ UNCHANGED <<memberVars, calls, dbVars, extraVars>>

\* POST /execute requests, one after another
ExecNext ==
  \/ RegisterStep
  \/ \E s \in Slots, p \in BrokerProjects, d \in CallDatabases :
       /\ Quiet /\ NoneInFlight
       /\ executeStart(s, p, d)
       /\ UNCHANGED <<memberVars, calls, dbVars, extraVars>>
  \/ \E s \in Slots :
       /\ Quiet
       /\ getDbConnectionLookup(s)
       /\ UNCHANGED <<memberVars, calls, dbVars, extraVars>>
  \/ \E s \in Slots, roundTrip \in Outcomes :
       /\ Quiet
       /\ getDbConnectionValidate(s, roundTrip)
       /\ UNCHANGED <<memberVars, calls, dbVars, extraVars>>
  \/ \E s \in Slots, result \in Outcomes :
       /\ executeRaw(s, result)
       /\ UNCHANGED <<memberVars, calls, dbVars, extraVars>>
  \/ \E s \in Slots, storeOk \in BOOLEAN :
       /\ executeLogSuccess(s, storeOk)
       /\ UNCHANGED <<memberVars, calls, dbVars, extraVars>>
  \/ \E s \in Slots, storeOk \in BOOLEAN, forUndefined \in ForUndefinedOutcomes :
       /\ executeLogFailure(s, storeOk, forUndefined)
       /\ UNCHANGED <<memberVars, calls, dbVars, extraVars>>

\* POST /execute and POST /ask requests with their getDbConnection calls, one
\* after another, against databases that may not answer
TimeoutNext ==
  \/ ExecNext
  \/ AskNext
  \/ \E s \in Slots :
       /\ neverAnswers(s)
       /\ UNCHANGED <<memberVars, calls, dbVars, extraVars>>

Spec == Init /\ [][Next]_vars
MemberSpec == Init /\ [][MemberNext]_vars
ConcSpec == Init /\ [][ConcNext]_vars
DbSpec == Init /\ [][DbNext]_vars
DbConcSpec == Init /\ [][DbConcNext]_vars
DbFailSpec == Init /\ [][DbFailNext]_vars
SeqBrokerSpec == Init /\ [][SeqBrokerNext]_vars
BrokerSpec == Init /\ [][BrokerNext]_vars
ExecSpec == Init /\ [][ExecNext]_vars
ShutdownSpec == Init /\ [][ShutdownNext]_vars
AskSpec == Init /\ [][AskNext]_vars
TimeoutSpec == Init /\ [][TimeoutNext]_vars
ConfigSpec == Init /\ [][ConfigNext]_vars
CreateSpec == Init /\ [][CreateNext]_vars

(***************************************************************************)
(* Properties                                                              *)
(***************************************************************************)
AddOps == {"ProjectMember.addMember", "Project.addMember", "POST members"}
RemoveOps == {"ProjectMember.removeMember", "Project.removeMember", "DELETE member"}

ActiveRowsOf(projectId, userId) ==
  {r \in members : r.project_id = projectId /\ r.user_id = userId /\ r.is_active}

C2_ConcurrentRemovalsKeepAnAdmin ==
  \A p \in hadAdmin :
    \E r \in members : r.project_id = p /\ r.role = "admin" /\ r.is_active

C4_PrimaryRegistrationCompletes ==
  /\ \A s \in Slots : reqs[s] # IdleReq /\ reqs[s].is_primary => CanStep(s)
  /\ dbLast.op = "POST databases" /\ dbLast.is_primary =>
       \A d \in databases, e \in databases :
         d.id = dbLast.id /\ e.project_id = d.project_id =>
           (e.is_primary <=> e.id = d.id)

\* C5: a (project, user) pair never has more than one membership row and
\* never gets a second row inserted; after ProjectMember.addMember has
\* inserted or reactivated, the pair has exactly one active row.
C5_OneRowPerMember ==
  \A p \in Projects, u \in Users :
    /\ Cardinality(RowsOf(members, p, u)) <= 1
    /\ inserted[p][u] <= 1
    /\ ( /\ last.op = "ProjectMember.addMember"
         /\ last.project = p /\ last.user = u
         /\ last.out \in {"inserted", "reactivated"} )
       => Cardinality(ActiveRowsOf(p, u)) = 1

\* a removed member was added again
C5_Witness ==
  /\ last.op = "ProjectMember.addMember" /\ last.out = "reactivated"
  /\ Cardinality(ActiveRowsOf(last.project, last.user)) = 1

\* C6: an addMember call with valid arguments for a user who has an active
\* row fails with AlreadyMember and leaves every row as it was.
C6_AddMemberRejectsActiveMember ==
  [][ ( /\ last'.op \in AddOps
        /\ last'.out \notin {"InvalidRole", "ValidationError"}
        /\ ActiveRowsOf(last'.project, last'.user) # {} )
      => (last'.out = "AlreadyMember" /\ members' = members) ]_vars

\* C7: a removal that succeeds sets is_active = false on the rows of the
\* target and changes nothing else: no row is deleted.
C7_RemovalKeepsTheRow ==
  [][ (last'.op \in RemoveOps /\ last'.out = "ok")
      => members' =
           {IF r.project_id = last'.project /\ r.user_id = last'.user
            THEN [r EXCEPT !.is_active = FALSE] ELSE r : r \in members} ]_vars

OnlyActiveAdmin(projectId, userId) ==
  /\ \E r \in ActiveRowsOf(projectId, userId) : r.role = "admin"
  /\ \A r \in members :
       r.project_id = projectId /\ r.role = "admin" /\ r.is_active
         => r.user_id = userId

\* C8: removeMember(P, U) of an active member U is rejected with
\* LastAdminViolation exactly when U is the only active admin of P, and then
\* changes nothing; for any other active member it succeeds, U has no active
\* row afterwards and the rows of the other users are as before.
C8_RejectedExactlyForLastAdmin ==
  [][ ( /\ last'.op \in {"ProjectMember.removeMember", "Project.removeMember"}
        /\ ActiveRowsOf(last'.project, last'.user) # {} )
      => LET p == last'.project
             u == last'.user
         IN /\ (last'.out = "LastAdminViolation") <=> OnlyActiveAdmin(p, u)
            /\ OnlyActiveAdmin(p, u) => members' = members
            /\ ~OnlyActiveAdmin(p, u)
                 => /\ last'.out = "ok"
                    /\ \A r \in members' :
                         r.project_id = p /\ r.user_id = u => ~r.is_active
                    /\ {r \in members' : r.user_id # u} =
                       {r \in members : r.user_id # u} ]_vars

RankedRoles == {"viewer", "user", "editor", "admin"}

rank(role) ==
  CASE role = "viewer" -> 0
    [] role = "user"   -> 1
    [] role = "editor" -> 2
    [] role = "admin"  -> 3

\* C9: for a member of role m and a required role r, both among viewer, user,
\* editor, admin, every role check answers rank(m) >= rank(r); for a user
\* with no membership row every role check answers no.
C9_RoleCheckFollowsRank ==
  \A p \in Projects, u \in Users, r \in RankedRoles :
    IF RowsOf(members, p, u) = {}
    THEN /\ Project_userHasRole(members, p, u, r) = {FALSE}
         /\ authorizeProject(members, p, u, r) = {"403"}
         /\ BaseModel_checkPermission(members, u, p, r) = {FALSE}
    ELSE \A m \in RowsOf(members, p, u) :
           m.role \in RankedRoles =>
             /\ Project_userHasRole(members, p, u, r) = {rank(m.role) >= rank(r)}
             /\ authorizeProject(members, p, u, r) =
                  {IF rank(m.role) >= rank(r) THEN "next" ELSE "403"}
             /\ BaseModel_checkPermission(members, u, p, r) =
                  {rank(m.role) >= rank(r)}

\* C10: hasPermission answers yes for an active admin whatever permissions
\* its row stores, for another active member exactly when one of the
\* requested permissions is in its row, and no for a user without an active
\* row.
C10_HasPermission ==
  \A p \in Projects, u \in Users, a \in PermissionArgs :
    /\ ProjectMember_hasPermission(members, p, u, a) =
         {\E r \in ActiveRowsOf(p, u) :
            r.role = "admin" \/ a.items \cap r.permissions # {}}
    /\ \A r \in ActiveRowsOf(p, u) :
         hasAnyPermission(r, a) =
           (r.role = "admin" \/ a.items \cap r.permissions # {})

\* an active admin whose row lacks a permission, next to a removed member who
\* is not an admin and whose row has permissions
C10_Witness ==
  \E r \in members, q \in members :
    /\ r.is_active /\ r.role = "admin" /\ r.permissions # AdminPermissions
    /\ ~q.is_active /\ q.role # "admin" /\ q.permissions # {}

\* the permissions hasPermission grants to a row
EffectivePermissions(r) ==
  {x \in Permissions : hasPermission(r, [array |-> FALSE, items |-> {x}])}

RolePermissionsAfter(role, customPermissions) ==
  IF role = "custom" THEN customPermissions ELSE getRolePermissions(role)

\* C11: after updateMember(P, U, r, L) has succeeded, and after addMember has
\* reactivated a removed membership with role r, the permissions that
\* hasPermission grants to U are the role table's entry for r when r is a
\* standard role, whatever U held before and whatever L is, and L when r is
\* custom.
C11_RoleChangeResetsPermissions ==
  [][ \A p \in Projects, u \in Users, role \in Roles, c \in CustomLists :
        ( \/ ProjectMember_updateMember(p, u, role, c) /\ last'.out = "ok"
          \/ ProjectMember_addMember(p, u, role, c) /\ last'.out = "reactivated" )
        => \A r \in RowsOf(members', p, u) :
             EffectivePermissions(r) = RolePermissionsAfter(role, c) ]_vars

\* C16: a call that is rejected with AlreadyMember or LastAdminViolation
\* leaves the set of membership rows and every field of every row as they
\* were before the call.
C16_RejectionWritesNothing ==
  [][ last'.out \in {"AlreadyMember", "LastAdminViolation"}
      => members' = members /\ inserted' = inserted ]_vars

\* rejections of both kinds have happened with rows of several states present
C16_Witness ==
  /\ last.out \in {"AlreadyMember", "LastAdminViolation"}
  /\ \E r \in members : r.is_active /\ r.role = "admin"
  /\ \E r \in members : ~r.is_active

\* C18: a custom member whose permission set is empty, and so lacks whatever
\* permission an operation needs, is denied by every role check at every
\* required role.
C18_CustomRoleUsesPermissions ==
  \A p \in Projects, u \in Users, r \in RankedRoles :
    \A m \in RowsOf(members, p, u) :
      (m.role = "custom" /\ m.permissions = {})
        => /\ Project_userHasRole(members, p, u, r) = {FALSE}
           /\ authorizeProject(members, p, u, r) = {"403"}
           /\ BaseModel_checkPermission(members, u, p, r) = {FALSE}

\* C17: under every interleaving of registrations and requests that mark a
\* row primary, a project whose committed rows show exactly one primary
\* shows exactly one primary after every step: a reader never finds zero or
\* two primaries.
C17_NoWindowWithoutPrimary ==
  [][ \A p \in Projects :
        Cardinality({d \in databases : d.project_id = p /\ d.is_primary}) = 1
          => Cardinality({d \in databases' : d.project_id = p /\ d.is_primary}) = 1
    ]_vars

C13_UnknownDatabaseIsRejected ==
  [][ /\ \A s \in Slots :
           ( /\ conns[s] # IdleConn
             /\ conns'[s] = IdleConn
             /\ ~ \E d \in databases :
                    d.id = conns[s].database /\ d.project_id = conns[s].project )
           => /\ connLast'.out = "DatabaseNotFound"
              /\ connLast'.project = conns[s].project
              /\ connLast'.database = conns[s].database
              /\ dbConnections' = dbConnections
      /\ \A k \in CacheKeys :
           dbConnections'[k] # 0
             => \E d \in databases' : d.id = k[2] /\ d.project_id = k[1] ]_vars

\* a call named a database of another project and was rejected while the
\* cache held an entry
C13_Witness ==
  /\ connLast.out = "DatabaseNotFound"
  /\ \E d \in databases : d.id = connLast.database /\ d.project_id # connLast.project
  /\ \E k \in CacheKeys : dbConnections[k] # 0

\* C14: when POST /execute has answered and the history table accepted every
\* write, query_history holds exactly one entry of that request, filed under
\* the request's project; after a failure the entry carries the error message.
C14_OneHistoryEntryPerExecute ==
  (execLast.req # 0 /\ execLast.storeOk)
    => LET entries == {e \in history : e.req = execLast.req} IN
       /\ Cardinality(entries) = 1
       /\ \A e \in entries :
            /\ e.project = execLast.project
            /\ execLast.status = 500 => e.error = execLast.thrown.message

\* C15: when the execution failed and no history entry could be written for
\* it, the response carries the message and the code of the execution error.
C15_HistoryFailureKeepsTheError ==
  ( /\ execLast.status = 500
    /\ execLast.thrown # HistoryError
    /\ {e \in history : e.req = execLast.req} = {} )
    => /\ execLast.error = execLast.thrown.message
       /\ execLast.code = execLast.thrown.code

\* the database rejected the query and the history table rejected the write
C15_Witness ==
  /\ execLast.status = 500
  /\ execLast.thrown \in DriverErrors
  /\ ~execLast.storeOk
  /\ {e \in history : e.req = execLast.req} = {}

\* C19: when the SELECT 1 round trip of a new handle throws, the call fails
\* with ConnectionFailed and the driver's message, the handle is destroyed,
\* and the cache has no entry for the key and no destroyed handle, so that
\* the next call for the key builds again.
C19_FailedHandleIsDiscarded ==
  [][ \A s \in Slots, e \in DriverErrors :
        getDbConnectionValidate(s, e)
        => /\ connLast'.out = "ConnectionFailed"
           /\ connLast'.error.message =
                <<"Failed to connect to database: ">> \o e.message
           /\ conns[s].handle \in destroyed'
           /\ dbConnections'[<<conns[s].project, conns[s].database>>] = 0
           /\ \A k \in CacheKeys : dbConnections'[k] \notin destroyed' ]_vars

\* a round trip failed, its handle is destroyed, and the key is not cached
C19_Witness ==
  /\ connLast.out = "ConnectionFailed"
  /\ destroyed # {}
  /\ dbConnections[<<connLast.project, connLast.database>>] = 0
  /\ \E k \in CacheKeys : dbConnections[k] # 0

\* C20: two getDbConnection calls never have a handle each under validation
\* for the same key: at most one build per key is in flight.
C20_SingleFlight ==
  \A s \in Slots, t \in Slots :
    ( /\ s # t
      /\ conns[s].pc = "validate"
      /\ conns[t].pc = "validate" )
    => <<conns[s].project, conns[s].database>> # <<conns[t].project, conns[t].database>>

\* C21: when destroy() of some cached handles fails during
\* cleanupDbConnections, by throwing or by a rejected promise, every other
\* cached handle is destroyed and its entry is deleted from the cache.
C21_CloseFailureDoesNotStopCleanup ==
  [][ connLast'.op = "cleanupDbConnections" =>
      \A thrown \in SUBSET {dbConnections[k] : k \in CacheKeys},
         rejected \in SUBSET {dbConnections[k] : k \in CacheKeys} :
        cleanupDbConnections(thrown, rejected)
        => \A k \in CacheKeys :
             dbConnections[k] \notin ({0} \cup thrown \cup rejected)
               => /\ dbConnections[k] \in destroyed'
                  /\ dbConnections'[k] = 0 ]_vars

\* a destroy() threw, the entry of that handle is still cached, and other
\* handles were closed by the same call
C21_Witness ==
  /\ connLast.op = "cleanupDbConnections" /\ connLast.out = "logged"
  /\ connLast.closed # {}
  /\ \E k \in CacheKeys : dbConnections[k] # 0 /\ dbConnections[k] \notin destroyed

\* C22: when cleanupDbConnections has returned the cache is empty; no call
\* destroys a handle that was destroyed before; a call on an empty cache
\* destroys nothing and changes nothing.
C22_CleanupIsIdempotent ==
  [][ connLast'.op = "cleanupDbConnections" =>
      \A thrown \in SUBSET {dbConnections[k] : k \in CacheKeys},
         rejected \in SUBSET {dbConnections[k] : k \in CacheKeys} :
        cleanupDbConnections(thrown, rejected)
        => /\ \A k \in CacheKeys : dbConnections'[k] = 0
           /\ \A k \in CacheKeys : dbConnections[k] \notin destroyed
           /\ (\A k \in CacheKeys : dbConnections[k] = 0)
                => /\ destroyed' = destroyed
                   /\ dbConnections' = dbConnections
                   /\ opened' = opened ]_vars

\* the default port of an engine; sqlite is a file and has none
DefaultPort(type) ==
  CASE type = "postgresql" -> 5432
    [] type = "mysql"      -> 3306
    [] type = "mongodb"    -> 27017
    [] type = "mssql"      -> 1433
    [] OTHER               -> NoPort

\* C23: a connection configuration is built for each of the five registrable
\* types, with the default port of the engine when the row has no port, and
\* building fails with UnsupportedDatabaseType for every other type.
C23_ConfigTableCoversRegistrableTypes ==
  IF cfgLast.type \in RegistrableTypes
  THEN cfgLast.op # "none"
         => /\ cfgLast.out = "config"
            /\ cfgLast.usedPort = PortOr(cfgLast.port, DefaultPort(cfgLast.type))
  ELSE cfgLast.out = "Unsupported database type"

\* C28: when a project creation has returned, every project row has the
\* active admin membership of its creator, whichever path made it: a failed
\* membership insert leaves no project behind.
C28_ProjectHasItsCreatorAsAdmin ==
  \A pr \in projects :
    \E r \in members :
      /\ r.project_id = pr.id /\ r.user_id = pr.created_by
      /\ r.role = "admin" /\ r.is_active

\* C26: on every route guarded by authorizeProject(R), a request of user U
\* for project P is admitted exactly when U has an active membership of P
\* whose rank is at least R.
C26_AuthorizeChecksTheHandlersProject ==
  \A route \in GuardedRoutes, p \in Projects, u \in Users,
     r \in {"user", "editor", "admin"} :
    (authorizeRequest(members, route, p, u, r) = {"next"})
      <=> \E m \in ActiveRowsOf(p, u) :
            m.role \in RankedRoles /\ rank(m.role) >= rank(r)

\* C27: right after a removeMember(P, U) that succeeded, authorizeProject
\* does not admit U on P at any required role, userHasRole answers no for
\* every role and hasPermission answers no for every permission.
C27_RemovedMemberIsNotAuthorized ==
  (last.op \in RemoveOps /\ last.out = "ok")
    => /\ \A r \in {"user", "editor", "admin"} :
            /\ "next" \notin authorizeProject(members, last.project, last.user, r)
            /\ Project_userHasRole(members, last.project, last.user, r) = {FALSE}
       /\ \A a \in PermissionArgs :
            ProjectMember_hasPermission(members, last.project, last.user, a) = {FALSE}

\* C25: when POST /ask has answered and the history table accepted every
\* write, query_history holds exactly one entry of that request, filed under
\* the request's project and flagged is_ai_generated, whether the connection,
\* the translation or the execution failed or all succeeded.
C25_AskLeavesOneAiEntry ==
  (execLast.kind = "ask" /\ execLast.storeOk)
    => LET entries == {e \in history : e.req = execLast.req} IN
       /\ Cardinality(entries) = 1
       /\ \A e \in entries :
            /\ e.project = execLast.project
            /\ e.is_ai_generated

\* C29: when a registration with is_primary = true fails, the primary
\* designation is as it was: every row that was primary and that the request
\* cleared is primary again after the rollback.
C29_FailedRegistrationKeepsThePrimary ==
  [][ \A s \in Slots :
        (dbFail(s) /\ reqs[s].is_primary)
        => \A d \in databases' : d.id \in reqs[s].cleared => d.is_primary ]_vars

\* C30: whenever no getDbConnection call is in progress, every handle that
\* was built and not destroyed is an entry of the cache, so that
\* cleanupDbConnections reaches it; also when calls for one key overlap and
\* when the handler runs while a call validates its handle.
C30_NoHandleOutsideTheCache ==
  (\A s \in Slots : conns[s] = IdleConn)
    => \A h \in 1..opened :
         h \notin destroyed => \E k \in CacheKeys : dbConnections[k] = h

\* C24: a getDbConnection, execute or ask request is never left waiting for
\* an answer of the target database that does not come: a request in flight
\* always has a step that ends its wait, by an answer, an error or a timeout.
C24_NoRequestWaitsForever ==
  \A s \in Slots : InFlight(s) => conns[s].pc # "pending"
====
